---------------------------- MODULE Spec2Model ----------------------------
(***************************************************************************)
(* The photo gallery of src/main.py: a Flask application that stores       *)
(* uploaded images in an object-store bucket, asks a generative model for  *)
(* a title and a description, stores them as a sibling JSON blob and       *)
(* renders a gallery, a detail page, the raw image and the raw record.     *)
(*                                                                         *)
(* Python strings are sequences of one-character strings, so that rsplit,  *)
(* splitext, lower, endswith and strip are computed as Python computes     *)
(* them.  A text that may be handed to json.loads is a sequence of         *)
(* symbols: single characters, whole JSON string literals, and opaque      *)
(* binary chunks.                                                          *)
(***************************************************************************)
EXTENDS Naturals, Sequences, FiniteSets, TLC

(***************************************************************************)
(* Bounds of the model.                                                    *)
(***************************************************************************)
\* Upload requests accepted over one behaviour.
MaxUploads == 2

(***************************************************************************)
(* Characters and Python's str methods.                                    *)
(***************************************************************************)
UpperToLower ==
  ("A" :> "a") @@ ("B" :> "b") @@ ("C" :> "c") @@ ("D" :> "d") @@ ("E" :> "e") @@
  ("F" :> "f") @@ ("G" :> "g") @@ ("H" :> "h") @@ ("I" :> "i") @@ ("J" :> "j") @@
  ("K" :> "k") @@ ("L" :> "l") @@ ("M" :> "m") @@ ("N" :> "n") @@ ("O" :> "o") @@
  ("P" :> "p") @@ ("Q" :> "q") @@ ("R" :> "r") @@ ("S" :> "s") @@ ("T" :> "t") @@
  ("U" :> "u") @@ ("V" :> "v") @@ ("W" :> "w") @@ ("X" :> "x") @@ ("Y" :> "y") @@
  ("Z" :> "z")

\* str.lower()
lower(s) ==
  [i \in 1..Len(s) |-> IF s[i] \in DOMAIN UpperToLower THEN UpperToLower[s[i]] ELSE s[i]]

\* c in s
contains(s, c) == \E i \in 1..Len(s) : s[i] = c

\* s.rfind(c), 1-based; 0 when c does not occur (Python's -1)
rfind(s, c) ==
  IF contains(s, c) THEN CHOOSE i \in 1..Len(s) : s[i] = c /\ \A j \in (i+1)..Len(s) : s[j] # c
  ELSE 0

\* s.endswith(suffix)
endswith(s, suffix) ==
  /\ Len(suffix) <= Len(s)
  /\ SubSeq(s, Len(s) - Len(suffix) + 1, Len(s)) = suffix

\* s.rsplit('.', 1)[1], taken only where '.' in s
rsplit_last(s) == SubSeq(s, rfind(s, ".") + 1, Len(s))

\* os.path.splitext(p)[0] (posixpath): the last dot splits, unless it comes
\* before the last '/', or only dots lie between the last '/' and it.
splitext_root(p) ==
  LET sepIndex == rfind(p, "/")
      dotIndex == rfind(p, ".")
  IN  IF /\ dotIndex > sepIndex
         /\ \E i \in (sepIndex+1)..(dotIndex-1) : p[i] # "."
      THEN SubSeq(p, 1, dotIndex - 1)
      ELSE p

ALLOWED_EXTENSIONS ==
  { <<"p","n","g">>, <<"j","p","g">>, <<"j","p","e","g">>, <<"g","i","f">> }

DESCRIPTION_SUFFIX ==
  <<"_","d","e","s","c","r","i","p","t","i","o","n",".","j","s","o","n">>

\* the test index makes of a blob's name, without the dot
MutantAllowedByEnding(filename) ==
  \E ext \in ALLOWED_EXTENSIONS : endswith(lower(filename), ext)
allowed_file(filename) ==
  /\ contains(filename, ".")
  /\ lower(rsplit_last(filename)) \in ALLOWED_EXTENSIONS

\* f"{os.path.splitext(filename)[0]}_description.json"
description_filename(filename) == splitext_root(filename) \o DESCRIPTION_SUFFIX

(***************************************************************************)
(* Texts and JSON.  A symbol is a character (k = "ch"), a complete JSON    *)
(* string literal (k = "str", v its value) or an opaque chunk of image     *)
(* bytes (k = "bin").  The JSON documents of the model are objects with    *)
(* string members and bare string literals; every other text is not JSON.  *)
(***************************************************************************)
Ch(c)  == [k |-> "ch",  v |-> c]
Str(x) == [k |-> "str", v |-> x]
Bin(b) == [k |-> "bin", v |-> b]

WHITESPACE == {" ", "\n"}

\* str.strip(chars): drop leading and trailing characters that are in chars
strip(t, chars) ==
  LET keep(i) == ~(t[i].k = "ch" /\ t[i].v \in chars)
  IN  IF \A i \in 1..Len(t) : ~keep(i) THEN <<>>
      ELSE LET first == CHOOSE i \in 1..Len(t) : keep(i) /\ \A j \in 1..(i-1) : ~keep(j)
               last  == CHOOSE i \in 1..Len(t) : keep(i) /\ \A j \in (i+1)..Len(t) : ~keep(j)
           IN  SubSeq(t, first, last)

\* A parsed JSON value: a dict (its items in insertion order) or a str.
JDict(items) == [t |-> "dict", s |-> "",  items |-> items]
JStr(x)      == [t |-> "str",  s |-> x,   items |-> <<>>]

has_key(d, key) == \E i \in 1..Len(d.items) : d.items[i].key = key

\* d[key] = val: a repeated key keeps its place and takes the new value
set_item(items, key, val) ==
  IF \E i \in 1..Len(items) : items[i].key = key
  THEN [i \in 1..Len(items) |->
          IF items[i].key = key THEN [key |-> key, val |-> val] ELSE items[i]]
  ELSE Append(items, [key |-> key, val |-> val])

\* dict.get(key, default)
dict_get(d, key, default) ==
  IF has_key(d, key)
  THEN (CHOOSE it \in {d.items[i] : i \in 1..Len(d.items)} : it.key = key).val
  ELSE default

\* the index of the first symbol at or after i that is not JSON whitespace
skip_ws(t, i) ==
  LET ws(j) == j <= Len(t) /\ t[j].k = "ch" /\ t[j].v \in WHITESPACE
  IN  CHOOSE j \in i..(Len(t)+1) : ~ws(j) /\ \A m \in i..(j-1) : ws(m)

is_ch(t, i, c) == i <= Len(t) /\ t[i] = Ch(c)
is_str(t, i)   == i <= Len(t) /\ t[i].k = "str"

\* the members of an object from the key at i on, up to the closing brace
RECURSIVE parse_members(_, _, _)
parse_members(t, i, acc) ==
  LET colon == skip_ws(t, i + 1)
      value == skip_ws(t, colon + 1)
      after == skip_ws(t, value + 1)
      items == set_item(acc, t[i].v, t[value].v)
  IN  IF ~(is_str(t, i) /\ is_ch(t, colon, ":") /\ is_str(t, value))
      THEN [ok |-> FALSE, items |-> <<>>, next |-> 0]
      ELSE IF is_ch(t, after, ",") THEN parse_members(t, skip_ws(t, after + 1), items)
      ELSE IF is_ch(t, after, "}") THEN [ok |-> TRUE, items |-> items, next |-> after + 1]
      ELSE [ok |-> FALSE, items |-> <<>>, next |-> 0]

\* json.loads(t): ok = FALSE stands for json.JSONDecodeError
json_loads(t) ==
  LET bad   == [ok |-> FALSE, val |-> JStr("")]
      start == skip_ws(t, 1)
      open  == skip_ws(t, start + 1)
      mem   == parse_members(t, open, <<>>)
      whole(val, next) == IF skip_ws(t, next) > Len(t) THEN [ok |-> TRUE, val |-> val] ELSE bad
  IN  IF is_str(t, start) THEN whole(JStr(t[start].v), start + 1)
      ELSE IF ~is_ch(t, start, "{") THEN bad
      ELSE IF is_ch(t, open, "}") THEN whole(JDict(<<>>), open + 1)
      ELSE IF mem.ok THEN whole(JDict(mem.items), mem.next)
      ELSE bad

RECURSIVE dump_items(_)
dump_items(items) ==
  LET one(it) == <<Ch(" "), Ch(" "), Str(it.key), Ch(":"), Ch(" "), Str(it.val)>>
  IN  IF Len(items) = 1 THEN one(items[1])
      ELSE one(items[1]) \o <<Ch(","), Ch("\n")>> \o dump_items(Tail(items))

\* json.dumps(d, indent=2) of a dict
json_dumps(d) ==
  IF d.items = <<>> THEN <<Ch("{"), Ch("}")>>
  ELSE <<Ch("{"), Ch("\n")>> \o dump_items(d.items) \o <<Ch("\n"), Ch("}")>>

\* {"title": title, "description": description}
Record(title, description) ==
  JDict(<<[key |-> "title", val |-> title], [key |-> "description", val |-> description]>>)

(***************************************************************************)
(* process_image_with_gemini.  What Image.open and generate_content do is  *)
(* the environment's choice: behaviour.kind is "open_raises" (Image.open   *)
(* raises), "generate_raises" (generate_content or response.text raises)   *)
(* or "text" (behaviour.text is response.text).  Texts interpolated into   *)
(* a description (the exception, the first 100 characters of the answer)   *)
(* are not kept: no branch reads them.                                     *)
(***************************************************************************)
\* The grave accent of a markdown fence (the lexer of TLA+ does not take the
\* character itself inside a string).
BACKTICK == "grave"

\* str.strip takes a set of characters: the grave accent and the letters of json
FENCE_CHARS == {BACKTICK, "j", "s", "o", "n"}

cleaned_text(text) == strip(strip(strip(strip(text, WHITESPACE), FENCE_CHARS), {BACKTICK}), WHITESPACE)

\* the parsed answer is returned without the check of its fields
MutantNoValidation(model, behaviour) ==
  IF ~model THEN Record("Error", "AI model not available.")
  ELSE IF behaviour.kind # "text" THEN Record("Error", "Error during AI processing: <e>")
  ELSE IF behaviour.text = <<>> THEN Record("Untitled", "No description generated.")
  ELSE LET parsed == json_loads(cleaned_text(behaviour.text))
       IN  IF ~parsed.ok
           THEN Record("Processing Error", "Could not parse AI response: <text[:100]>...")
           ELSE IF parsed.val.t = "dict" /\ parsed.val.items # <<>> THEN parsed.val
           ELSE Record("Processing Error", "Received invalid format from AI.")
process_image_with_gemini(model, behaviour) ==
  IF ~model THEN Record("Error", "AI model not available.")
  ELSE IF behaviour.kind # "text" THEN Record("Error", "Error during AI processing: <e>")
  ELSE IF behaviour.text = <<>> THEN Record("Untitled", "No description generated.")
  ELSE LET parsed == json_loads(cleaned_text(behaviour.text))
       IN  IF ~parsed.ok
           THEN Record("Processing Error", "Could not parse AI response: <text[:100]>...")
           ELSE IF /\ parsed.val.t = "dict"
                   /\ has_key(parsed.val, "title")
                   /\ has_key(parsed.val, "description")
           THEN parsed.val
           ELSE Record("Processing Error", "Received invalid format from AI.")

\* calls of model.generate_content made by one process_image_with_gemini
generate_calls(model, behaviour) ==
  IF model /\ behaviour.kind # "open_raises" THEN 1 ELSE 0

(***************************************************************************)
(* The bucket.  A blob has its data (a text), its content type and, as     *)
(* history, the upload request that wrote it (0: it was in the bucket      *)
(* when the application started).  list_blobs returns names in the         *)
(* bucket's own order, KeyOrder.                                           *)
(***************************************************************************)
A_PNG    == <<"a",".","p","n","g">>
A_JPG    == <<"a",".","J","P","G">>
DOT_PNG  == <<".","p","n","g">>
AGIF     == <<"a","g","i","f">>
A_TXT    == <<"a",".","t","x","t">>
NO_DOT   == <<"a">>
EMPTY    == <<>>

\* the filenames an upload request may carry
Filenames == {A_PNG, A_JPG, DOT_PNG, AGIF, A_TXT, NO_DOT, EMPTY}

\* the names a blob of the bucket may have, in listing order
KeyOrder ==
  << DOT_PNG, description_filename(DOT_PNG),
     A_JPG, A_PNG, description_filename(A_PNG),
     AGIF, description_filename(AGIF) >>

Keys == {KeyOrder[i] : i \in 1..Len(KeyOrder)}

NoBlob == [exists |-> FALSE, data |-> <<>>, content_type |-> "", by |-> 0]

Blob(data, content_type, by) ==
  [exists |-> TRUE, data |-> data, content_type |-> content_type, by |-> by]

\* bucket.list_blobs()
list_blobs(st) == SelectSeq(KeyOrder, LAMBDA k : st[k].exists)

\* blob.upload_from_string(data, content_type=...): the blob is replaced
MutantKeepExisting(st, key, blob) == IF st[key].exists THEN st ELSE [st EXCEPT ![key] = blob]
upload_from_string(st, key, blob) == [st EXCEPT ![key] = blob]

(***************************************************************************)
(* What the store does to one request: nothing, or one of its calls        *)
(* raises.  A download fault names the blob whose download raises.         *)
(***************************************************************************)
NoFault == [op |-> "none", key |-> <<>>]

(***************************************************************************)
(* index: the gallery.  Each entry also carries the description the loop   *)
(* computed, which the page does not show.                                 *)
(***************************************************************************)
is_image_name(name) == \E ext \in ALLOWED_EXTENSIONS : endswith(lower(name), ext)

is_description_name(name) == endswith(lower(name), DESCRIPTION_SUFFIX)

\* one pass of the loop body, lines 141-170
index_entry(st, name, fault) ==
  LET desc_filename == description_filename(name)
      parsed == json_loads(st[desc_filename].data)
      entry(title, description) ==
        [filename |-> name, title |-> title, description |-> description]
  IN  IF ~(desc_filename \in Keys /\ st[desc_filename].exists /\ is_description_name(desc_filename))
      THEN entry("Untitled", "No description available")
      ELSE IF fault = [op |-> "download", key |-> desc_filename]
      THEN entry("Untitled", "Error loading description.")
      ELSE IF ~parsed.ok
      THEN entry("Untitled", "Error loading description (invalid format).")
      ELSE IF parsed.val.t # "dict"
      THEN entry("Untitled", "Error loading description.")
      ELSE entry(dict_get(parsed.val, "title", "Untitled"),
                 dict_get(parsed.val, "description", "No description available"))

\* without the inner try, the first record that cannot be read ends the loop
\* in the outer except
MutantIndexAborts(bucket, st, fault) ==
  LET image_files == IF bucket /\ fault.op # "list"
                     THEN SelectSeq(list_blobs(st), is_image_name) ELSE <<>>
      entries == [i \in 1..Len(image_files) |-> index_entry(st, image_files[i], fault)]
      failed(i) == entries[i].description \in
                     {"Error loading description.", "Error loading description (invalid format)."}
  IN  IF ~bucket \/ fault.op = "list" THEN [flash |-> "error", entries |-> <<>>]
      ELSE IF \E i \in 1..Len(entries) : failed(i)
      THEN [flash |-> "error",
            entries |-> SubSeq(entries, 1,
                          (CHOOSE i \in 1..Len(entries) :
                             failed(i) /\ \A j \in 1..(i-1) : ~failed(j)) - 1)]
      ELSE [flash |-> "", entries |-> entries]
index_response(bucket, st, fault) ==
  IF ~bucket
  THEN [flash |-> "error", entries |-> <<>>]
  ELSE IF fault.op = "list"
  THEN [flash |-> "error", entries |-> <<>>]
  ELSE LET image_files == SelectSeq(list_blobs(st), is_image_name)
       IN  [flash |-> "",
            entries |-> [i \in 1..Len(image_files) |-> index_entry(st, image_files[i], fault)]]

\* image_data as the template gets it
image_data(resp) ==
  [i \in 1..Len(resp.entries) |->
     [filename |-> resp.entries[i].filename, title |-> resp.entries[i].title]]

(***************************************************************************)
(* view_image_details: the detail page.                                    *)
(***************************************************************************)
\* the title is never taken from the record
MutantViewKeepsTitle(bucket, st, filename, fault) ==
  LET json_filename == description_filename(filename)
      present == json_filename \in Keys /\ st[json_filename].exists
      parsed  == json_loads(st[json_filename].data)
      page(title, description) ==
        [status |-> 200, title |-> title, description |-> description, filename |-> filename]
  IN  IF ~bucket THEN [status |-> 500, title |-> "", description |-> "", filename |-> filename]
      ELSE IF fault.op = "exists" THEN page("Error", "Error retrieving description: <e>")
      ELSE IF ~present THEN page("Untitled", "No description file found.")
      ELSE IF fault = [op |-> "download", key |-> json_filename]
      THEN page("Error", "Error retrieving description: <e>")
      ELSE IF ~parsed.ok THEN page("Error", "Error: Description file has invalid format.")
      ELSE IF parsed.val.t # "dict" THEN page("Error", "Error retrieving description: <e>")
      ELSE page("Error", dict_get(parsed.val, "description", "No description available."))
\* json.JSONDecodeError is not caught: the request fails
MutantViewFailsOnBadJson(bucket, st, filename, fault) ==
  LET json_filename == description_filename(filename)
      present == json_filename \in Keys /\ st[json_filename].exists
      parsed  == json_loads(st[json_filename].data)
      page(title, description) ==
        [status |-> 200, title |-> title, description |-> description, filename |-> filename]
  IN  IF ~bucket THEN [status |-> 500, title |-> "", description |-> "", filename |-> filename]
      ELSE IF fault.op = "exists" THEN page("Error", "Error retrieving description: <e>")
      ELSE IF ~present THEN page("Untitled", "No description file found.")
      ELSE IF fault = [op |-> "download", key |-> json_filename]
      THEN page("Error", "Error retrieving description: <e>")
      ELSE IF ~parsed.ok THEN [status |-> 500, title |-> "", description |-> "", filename |-> filename]
      ELSE IF parsed.val.t # "dict" THEN page("Error", "Error retrieving description: <e>")
      ELSE page(dict_get(parsed.val, "title", "Untitled"),
                dict_get(parsed.val, "description", "No description available."))
view_image_details_response(bucket, st, filename, fault) ==
  LET json_filename == description_filename(filename)
      present == json_filename \in Keys /\ st[json_filename].exists
      parsed  == json_loads(st[json_filename].data)
      page(title, description) ==
        [status |-> 200, title |-> title, description |-> description, filename |-> filename]
  IN  IF ~bucket THEN [status |-> 500, title |-> "", description |-> "", filename |-> filename]
      ELSE IF fault.op = "exists" THEN page("Error", "Error retrieving description: <e>")
      ELSE IF ~present THEN page("Untitled", "No description file found.")
      ELSE IF fault = [op |-> "download", key |-> json_filename]
      THEN page("Error", "Error retrieving description: <e>")
      ELSE IF ~parsed.ok THEN page("Error", "Error: Description file has invalid format.")
      ELSE IF parsed.val.t # "dict" THEN page("Error", "Error retrieving description: <e>")
      ELSE page(dict_get(parsed.val, "title", "Untitled"),
                dict_get(parsed.val, "description", "No description available."))

(***************************************************************************)
(* get_image_file: the raw image.  downloads counts download_as_bytes.     *)
(***************************************************************************)
\* without blob.exists(): a blob that is not there is downloaded, which raises
MutantServeWithoutCheck(bucket, st, filename, fault) ==
  LET present == filename \in Keys /\ st[filename].exists
      reply(status, downloads) ==
        [status |-> status, data |-> <<>>, mimetype |-> "", downloads |-> downloads]
  IN  IF ~bucket THEN reply(500, 0)
      ELSE IF ~present \/ fault.op = "download" THEN reply(500, 1)
      ELSE [status |-> 200, data |-> st[filename].data,
            mimetype |-> IF st[filename].content_type # "" THEN st[filename].content_type
                         ELSE "application/octet-stream",
            downloads |-> 1]
get_image_file_response(bucket, st, filename, fault) ==
  LET present == filename \in Keys /\ st[filename].exists
      reply(status, downloads) ==
        [status |-> status, data |-> <<>>, mimetype |-> "", downloads |-> downloads]
  IN  IF ~bucket THEN reply(500, 0)
      ELSE IF fault.op = "exists" THEN reply(500, 0)
      ELSE IF ~present THEN reply(404, 0)
      ELSE IF fault = [op |-> "download", key |-> filename] THEN reply(500, 1)
      ELSE [status |-> 200, data |-> st[filename].data,
            mimetype |-> IF st[filename].content_type # "" THEN st[filename].content_type
                         ELSE "application/octet-stream",
            downloads |-> 1]

(***************************************************************************)
(* get_description_json: the raw record.                                   *)
(***************************************************************************)
get_description_json_response(bucket, st, filename, fault) ==
  LET json_filename == description_filename(filename)
      present == json_filename \in Keys /\ st[json_filename].exists
      parsed  == json_loads(st[json_filename].data)
      error(status, text) == [status |-> status, body |-> JDict(<<[key |-> "error", val |-> text]>>)]
  IN  IF ~bucket THEN error(500, "Storage bucket not configured.")
      ELSE IF fault.op = "exists" THEN error(500, "Error retrieving description: <e>")
      ELSE IF ~present THEN error(404, "Description not found.")
      ELSE IF fault = [op |-> "download", key |-> json_filename]
      THEN error(500, "Error retrieving description: <e>")
      ELSE IF ~parsed.ok THEN error(500, "Invalid description format.")
      ELSE [status |-> 200, body |-> parsed.val]

(***************************************************************************)
(* The inputs of the model.                                                *)
(***************************************************************************)
\* the bytes of the file of the id-th upload request: every request brings
\* an image of its own
FileContent(id) == <<Bin(ToString(id))>>

\* the bytes of an image that was in the bucket before
OLD_IMAGE == <<Bin("old")>>

\* request.files['file'].mimetype of the uploads of the model
MIMETYPE == "image/png"

GOOD_TEXT ==
  <<Ch("{"), Str("title"), Ch(":"), Ch(" "), Str("Cat"), Ch(","), Ch(" "),
    Str("description"), Ch(":"), Ch(" "), Str("A cat."), Ch("}")>>

\* the same answer inside a markdown fence
FENCED_TEXT ==
  <<Ch(BACKTICK), Ch(BACKTICK), Ch(BACKTICK), Ch("j"), Ch("s"), Ch("o"), Ch("n"), Ch("\n")>>
    \o GOOD_TEXT \o <<Ch("\n"), Ch(BACKTICK), Ch(BACKTICK), Ch(BACKTICK)>>

NO_DESCRIPTION_TEXT == <<Ch("{"), Str("title"), Ch(":"), Str("Cat"), Ch("}")>>

BARE_STRING_TEXT == <<Str("Cat")>>

PROSE_TEXT == <<Ch("n"), Ch("o"), Ch(" "), Ch("c"), Ch("a"), Ch("t")>>

Responses ==
  {<<>>, GOOD_TEXT, FENCED_TEXT, NO_DESCRIPTION_TEXT, BARE_STRING_TEXT, PROSE_TEXT}

Behaviours ==
  {[kind |-> "open_raises", text |-> <<>>], [kind |-> "generate_raises", text |-> <<>>]}
    \cup {[kind |-> "text", text |-> t] : t \in Responses}

\* the names a read request may carry
ReadNames == {A_PNG, DOT_PNG, AGIF}

EmptyStore == [k \in Keys |-> NoBlob]

\* a bucket that other tools have written to: a record that is no JSON, a
\* record that is a bare string, a record without a description, and a blob
\* without a content type
LegacyStore ==
  [k \in Keys |->
     IF k = A_PNG THEN Blob(OLD_IMAGE, "image/png", 0)
     ELSE IF k = description_filename(A_PNG) THEN Blob(PROSE_TEXT, "application/json", 0)
     ELSE IF k = description_filename(DOT_PNG) THEN Blob(BARE_STRING_TEXT, "application/json", 0)
     ELSE IF k = AGIF THEN Blob(OLD_IMAGE, "", 0)
     ELSE IF k = description_filename(AGIF) THEN Blob(NO_DESCRIPTION_TEXT, "", 0)
     ELSE NoBlob]

\* the handles and the bucket when the application has started
InitialConfigurations ==
  { [bucket |-> TRUE,  model |-> TRUE,  store |-> EmptyStore],
    [bucket |-> TRUE,  model |-> TRUE,  store |-> LegacyStore],
    [bucket |-> TRUE,  model |-> FALSE, store |-> EmptyStore],
    [bucket |-> FALSE, model |-> TRUE,  store |-> EmptyStore] }

(***************************************************************************)
(* The state.  bucket and model are the module-level handles set at        *)
(* import (None: FALSE).  req holds the upload requests in flight, each    *)
(* with the locals of upload_file and, as history, what it has done.       *)
(* view is the response of the latest request when that was a read.        *)
(***************************************************************************)
VARIABLES bucket, model, store, req, uploads, last_success, view

vars == <<bucket, model, store, req, uploads, last_success, view>>

\* the request threads of the model
Reqs == {1, 2}

NoFlash == [category |-> "", message |-> ""]
Flash(category, message) == [category |-> category, message |-> message]

Idle ==
  [pc |-> "idle", id |-> 0, has_file |-> FALSE, filename |-> <<>>, file_bytes |-> <<>>,
   description_data |-> JDict(<<>>), flash |-> NoFlash,
   ai_calls |-> 0, ai_failed |-> FALSE, store_raised |-> FALSE,
   image_put |-> FALSE, described |-> FALSE, json_put |-> FALSE]

NoView == [handler |-> "none", filename |-> <<>>, fault |-> NoFault, response |-> <<>>]

Init ==
  /\ \E c \in InitialConfigurations :
       bucket = c.bucket /\ model = c.model /\ store = c.store
  /\ req = [r \in Reqs |-> Idle]
  /\ uploads = 0
  /\ last_success = [f \in Filenames |-> 0]
  /\ view = NoView

(***************************************************************************)
(* upload_file, lines 180-199 and 241-243: the checks before the try.      *)
(***************************************************************************)
upload_file(r, has_file, filename) ==
  LET reject(category, message) ==
        [Idle EXCEPT !.pc = "done", !.id = uploads + 1, !.has_file = has_file,
                     !.filename = filename, !.flash = Flash(category, message)]
  IN
  /\ req[r].pc = "idle"
  /\ uploads < MaxUploads
  /\ uploads' = uploads + 1
  /\ req' = [req EXCEPT ![r] =
       IF ~bucket THEN reject("error", "Storage or AI service not configured. Upload disabled.")
       ELSE IF ~has_file THEN reject("warning", "No file part in the request.")
       ELSE IF filename = EMPTY THEN reject("warning", "No file selected for upload.")
       ELSE IF allowed_file(filename)
       THEN [Idle EXCEPT !.pc = "put_image", !.id = uploads + 1, !.has_file = TRUE,
                         !.filename = filename, !.file_bytes = FileContent(uploads + 1)]
       ELSE reject("warning", "Invalid file type. Allowed types: png, jpg, jpeg, gif")]
  /\ view' = NoView
  /\ UNCHANGED <<bucket, model, store, last_success>>

\* lines 201-210: file.read() and the image's upload_from_string; raises
\* says that one of them raised
put_image(r, raises) ==
  /\ req[r].pc = "put_image"
  /\ IF raises
     THEN /\ req' = [req EXCEPT ![r].pc = "done", ![r].store_raised = TRUE,
                                ![r].flash = Flash("error", "Error processing file <filename>: <e>")]
          /\ UNCHANGED store
     ELSE /\ store' = upload_from_string(store, req[r].filename,
                                         Blob(req[r].file_bytes, MIMETYPE, req[r].id))
          /\ req' = [req EXCEPT ![r].pc = "gemini", ![r].image_put = TRUE]
  /\ view' = NoView
  /\ UNCHANGED <<bucket, model, uploads, last_success>>

\* the exception of the AI client is not caught in process_image_with_gemini
\* and ends the request in upload_file's except
MutantGeminiPropagates(r, behaviour) ==
  /\ req[r].pc = "gemini"
  /\ req' = IF ~model \/ behaviour.kind # "text"
            THEN [req EXCEPT ![r].pc = "done", ![r].ai_failed = TRUE, ![r].described = TRUE,
                             ![r].ai_calls = @ + generate_calls(model, behaviour),
                             ![r].flash = Flash("error", "Error processing file <filename>: <e>")]
            ELSE [req EXCEPT ![r].pc = "put_json",
                             ![r].description_data = process_image_with_gemini(model, behaviour),
                             ![r].ai_calls = @ + generate_calls(model, behaviour),
                             ![r].described = TRUE]
  /\ view' = NoView
  /\ UNCHANGED <<bucket, model, store, uploads, last_success>>
\* the image is described before it is stored
MutantGeminiBeforeUpload(r, behaviour) ==
  /\ req[r].pc \in {"put_image", "gemini"}
  /\ ~req[r].described
  /\ req' = [req EXCEPT ![r].pc = IF req[r].pc = "gemini" THEN "put_json" ELSE "put_image",
                        ![r].description_data = process_image_with_gemini(model, behaviour),
                        ![r].ai_calls = @ + generate_calls(model, behaviour),
                        ![r].ai_failed = ~model \/ behaviour.kind # "text",
                        ![r].described = TRUE]
  /\ view' = NoView
  /\ UNCHANGED <<bucket, model, store, uploads, last_success>>
\* lines 212-215
gemini(r, behaviour) ==
  /\ req[r].pc = "gemini"
  /\ req' = [req EXCEPT ![r].pc = "put_json",
                        ![r].description_data = process_image_with_gemini(model, behaviour),
                        ![r].ai_calls = @ + generate_calls(model, behaviour),
                        ![r].ai_failed = ~model \/ behaviour.kind # "text",
                        ![r].described = TRUE]
  /\ view' = NoView
  /\ UNCHANGED <<bucket, model, store, uploads, last_success>>

\* a record that is already there is kept
MutantPutJsonIfAbsent(r, raises) ==
  /\ req[r].pc = "put_json"
  /\ IF raises
     THEN /\ req' = [req EXCEPT ![r].pc = "done", ![r].store_raised = TRUE,
                       ![r].flash = Flash("error", "Error processing file <filename>: <e>")]
          /\ UNCHANGED <<store, last_success>>
     ELSE /\ store' = IF store[description_filename(req[r].filename)].exists THEN store
                      ELSE upload_from_string(store, description_filename(req[r].filename),
                             Blob(json_dumps(req[r].description_data), "application/json", req[r].id))
          /\ req' = [req EXCEPT ![r].pc = "done", ![r].json_put = TRUE,
                       ![r].flash = Flash("success", "File <filename> uploaded and processed successfully!")]
          /\ last_success' = [last_success EXCEPT ![req[r].filename] = req[r].id]
  /\ view' = NoView
  /\ UNCHANGED <<bucket, model, uploads>>
\* lines 218-239: the record's upload_from_string and the flash
put_json(r, raises) ==
  /\ req[r].pc = "put_json"
  /\ IF req[r].description_data.t = "dict" /\ req[r].description_data.items # <<>>
     THEN IF raises
          THEN /\ req' = [req EXCEPT ![r].pc = "done", ![r].store_raised = TRUE,
                            ![r].flash = Flash("error", "Error processing file <filename>: <e>")]
               /\ UNCHANGED <<store, last_success>>
          ELSE /\ store' = upload_from_string(store, description_filename(req[r].filename),
                              Blob(json_dumps(req[r].description_data), "application/json", req[r].id))
               /\ req' = [req EXCEPT ![r].pc = "done", ![r].json_put = TRUE,
                            ![r].flash = Flash("success", "File <filename> uploaded and processed successfully!")]
               /\ last_success' = [last_success EXCEPT ![req[r].filename] = req[r].id]
     ELSE /\ req' = [req EXCEPT ![r].pc = "done",
                       ![r].flash = Flash("warning", "File <filename> uploaded, but AI processing failed.")]
          /\ UNCHANGED <<store, last_success>>
  /\ view' = NoView
  /\ UNCHANGED <<bucket, model, uploads>>

\* the redirect is sent and the thread takes the next request
respond(r) ==
  /\ req[r].pc = "done"
  /\ req' = [req EXCEPT ![r] = Idle]
  /\ view' = NoView
  /\ UNCHANGED <<bucket, model, store, uploads, last_success>>

(***************************************************************************)
(* The read requests.                                                      *)
(***************************************************************************)
Read(handler, filename, fault, response) ==
  /\ view' = [handler |-> handler, filename |-> filename, fault |-> fault, response |-> response]
  /\ UNCHANGED <<bucket, model, store, req, uploads, last_success>>

index(fault) ==
  Read("index", <<>>, fault, index_response(bucket, store, fault))

view_image_details(filename, fault) ==
  Read("view_image_details", filename, fault,
       view_image_details_response(bucket, store, filename, fault))

get_image_file(filename, fault) ==
  Read("get_image_file", filename, fault,
       get_image_file_response(bucket, store, filename, fault))

get_description_json(filename, fault) ==
  Read("get_description_json", filename, fault,
       get_description_json_response(bucket, store, filename, fault))

\* the response of a read request is sent
send(handler) ==
  /\ view.handler = handler
  /\ view' = NoView
  /\ UNCHANGED <<bucket, model, store, req, uploads, last_success>>

\* the faults that reach a handler that reads the blob called key
FaultsAt(key) == {NoFault, [op |-> "exists", key |-> <<>>], [op |-> "download", key |-> key]}

IndexFaults ==
  {NoFault, [op |-> "list", key |-> <<>>]}
    \cup {[op |-> "download", key |-> k] : k \in {k \in Keys : is_description_name(k)}}

\* no request is being served
Quiet == view = NoView /\ \A q \in Reqs : req[q].pc = "idle"

(***************************************************************************)
(* Spec: the server takes one request at a time and serves it to the end   *)
(* (the development server without threads, or a single synchronous        *)
(* worker).                                                                *)
(***************************************************************************)
Next ==
  \/ \E has_file \in BOOLEAN : \E filename \in Filenames :
       Quiet /\ upload_file(1, has_file, filename)
  \/ \E raises \in BOOLEAN : put_image(1, raises)
  \/ \E behaviour \in Behaviours : gemini(1, behaviour)
  \/ \E raises \in BOOLEAN : put_json(1, raises)
  \/ respond(1)
  \/ \E fault \in IndexFaults : Quiet /\ index(fault)
  \/ \E filename \in ReadNames : \E fault \in FaultsAt(description_filename(filename)) :
       Quiet /\ view_image_details(filename, fault)
  \/ \E filename \in ReadNames : \E fault \in FaultsAt(filename) :
       Quiet /\ get_image_file(filename, fault)
  \/ \E filename \in ReadNames : \E fault \in FaultsAt(description_filename(filename)) :
       Quiet /\ get_description_json(filename, fault)
  \/ \E handler \in {"index", "view_image_details", "get_image_file", "get_description_json"} :
       send(handler)

Spec == Init /\ [][Next]_vars

(***************************************************************************)
(* ThreadedSpec: the threaded server with two uploads in flight, their     *)
(* steps interleaved in any order.  Every call on the bucket is one step.  *)
(***************************************************************************)
ThreadedNext ==
  \E r \in Reqs :
    \/ \E has_file \in BOOLEAN : \E filename \in Filenames :
         upload_file(r, has_file, filename)
    \/ \E raises \in BOOLEAN : put_image(r, raises)
    \/ \E behaviour \in Behaviours : gemini(r, behaviour)
    \/ \E raises \in BOOLEAN : put_json(r, raises)
    \/ respond(r)

ThreadedSpec == Init /\ [][ThreadedNext]_vars

(***************************************************************************)
(* The properties.                                                         *)
(***************************************************************************)
Done(r) == req[r].pc = "done"

Succeeded(r) == Done(r) /\ req[r].flash.category = "success"

\* the record in the blob paired with filename, as json.loads gives it
StoredRecord(st, filename) == json_loads(st[description_filename(filename)].data)

\* the titles the gallery shows for filename
GalleryTitles(st, filename) ==
  LET entries == index_response(TRUE, st, NoFault).entries
  IN  {entries[i].title : i \in {i \in 1..Len(entries) : entries[i].filename = filename}}

\* the highest of a set of request ids
Latest(ids) == CHOOSE n \in ids : \A m \in ids : m <= n

\* C1: with the bucket configured, an upload request whose filename is empty,
\* has no dot, or has a last extension that in lower case is none of png, jpg,
\* jpeg, gif ends at once with a warning, has written no blob (the bucket is
\* as it was) and has not called the AI client.
C1_RejectedUploadWritesNothing ==
  [][\A r \in Reqs :
       ( /\ bucket
         /\ req[r].pc = "idle" /\ req'[r].pc # "idle"
         /\ req'[r].has_file
         /\ \/ req'[r].filename = <<>>
            \/ ~contains(req'[r].filename, ".")
            \/ lower(rsplit_last(req'[r].filename)) \notin ALLOWED_EXTENSIONS )
       => /\ store' = store
          /\ req'[r].pc = "done"
          /\ req'[r].flash.category = "warning"
          /\ req'[r].ai_calls = 0
          /\ ~req'[r].image_put /\ ~req'[r].json_put]_vars

\* C1's case: a request for a name that ends in gif but has no dot was turned
\* away from a bucket that holds blobs.
C1_Witness ==
  \E r \in Reqs :
    /\ Done(r) /\ req[r].has_file /\ req[r].filename = AGIF
    /\ req[r].flash.category = "warning"
    /\ store = LegacyStore

\* C2: when an upload has ended with the success message, the bucket holds
\* the uploaded bytes under the uploaded filename, and under the description
\* filename a JSON object with a title and a description, whatever the AI
\* client did.
C2_SuccessfulUploadStoresImageAndRecord ==
  \A r \in Reqs :
    Succeeded(r) =>
      /\ store[req[r].filename].exists
      /\ store[req[r].filename].data = req[r].file_bytes
      /\ store[description_filename(req[r].filename)].exists
      /\ StoredRecord(store, req[r].filename).ok
      /\ StoredRecord(store, req[r].filename).val.t = "dict"
      /\ has_key(StoredRecord(store, req[r].filename).val, "title")
      /\ has_key(StoredRecord(store, req[r].filename).val, "description")

\* C2's case: an upload succeeded although the AI client's answer was unusable.
C2_Witness ==
  \E r \in Reqs :
    /\ Succeeded(r)
    /\ ~req[r].ai_failed
    /\ dict_get(StoredRecord(store, req[r].filename).val, "title", "") = "Processing Error"

\* the strings a title or a description is drawn from in C3
Texts ==
  {"Cat", "A cat.", "Untitled", "Error", "Processing Error", "", "title",
   "AI model not available.", "Error during AI processing: <e>",
   "No description generated.", "Received invalid format from AI.",
   "Could not parse AI response: <text[:100]>..."}

\* C3: when the blob paired with an image name holds json.dumps of
\* {"title": T, "description": D} and the bucket answers, the detail page
\* shows T and D and the description API returns a record with T and D.
C3_MetadataRoundTrip ==
  \A T \in Texts : \A D \in Texts :
    ( /\ bucket
      /\ view.handler \in {"view_image_details", "get_description_json"}
      /\ view.fault = NoFault
      /\ description_filename(view.filename) \in Keys
      /\ store[description_filename(view.filename)].exists
      /\ store[description_filename(view.filename)].data = json_dumps(Record(T, D)) )
    => /\ view.response.status = 200
       /\ view.handler = "view_image_details" =>
            view.response.title = T /\ view.response.description = D
       /\ view.handler = "get_description_json" =>
            /\ view.response.body.t = "dict"
            /\ dict_get(view.response.body, "title", "<none>") = T
            /\ dict_get(view.response.body, "description", "<none>") = D

\* C3's case: the detail page of an image whose record an upload has written.
C3_Witness ==
  /\ view.handler = "view_image_details"
  /\ view.fault = NoFault
  /\ store[description_filename(view.filename)].by > 0
  /\ store[description_filename(view.filename)].data = json_dumps(Record("Cat", "A cat."))
  /\ view.response.title = "Cat"

\* C4: unless the listing itself fails, the gallery has one entry for every
\* listed blob whose name ends in an image extension, in listing order, and
\* has flashed no error; the entry of an image whose record is there but is
\* no JSON, cannot be downloaded or is no object has the title "Untitled" and
\* a fixed error description; a record without a title gives "Untitled" and
\* one without a description gives "No description available".
C4_GalleryDegradesOneEntry ==
  ( bucket /\ view.handler = "index" /\ view.fault.op # "list" ) =>
    LET entries == view.response.entries
        images  == SelectSeq(KeyOrder,
                     LAMBDA k : store[k].exists
                                /\ \E ext \in ALLOWED_EXTENSIONS : endswith(lower(k), ext))
    IN  /\ view.response.flash = ""
        /\ [i \in 1..Len(entries) |-> entries[i].filename] = images
        /\ \A i \in 1..Len(entries) :
             LET key == description_filename(entries[i].filename)
                 rec == json_loads(store[key].data)
             IN  (key \in Keys /\ store[key].exists) =>
                   /\ view.fault = [op |-> "download", key |-> key] =>
                        /\ entries[i].title = "Untitled"
                        /\ entries[i].description = "Error loading description."
                   /\ (view.fault.op = "none" /\ ~rec.ok) =>
                        /\ entries[i].title = "Untitled"
                        /\ entries[i].description = "Error loading description (invalid format)."
                   /\ (view.fault.op = "none" /\ rec.ok /\ rec.val.t # "dict") =>
                        /\ entries[i].title = "Untitled"
                        /\ entries[i].description = "Error loading description."
                   /\ (view.fault.op = "none" /\ rec.ok /\ rec.val.t = "dict"
                         /\ ~has_key(rec.val, "title")) =>
                        entries[i].title = "Untitled"
                   /\ (view.fault.op = "none" /\ rec.ok /\ rec.val.t = "dict"
                         /\ ~has_key(rec.val, "description")) =>
                        entries[i].description = "No description available"

\* C4's case: a gallery of two images, the first with a record that is no JSON.
C4_Witness ==
  /\ view.handler = "index" /\ view.fault = NoFault
  /\ Len(view.response.entries) >= 2
  /\ view.response.entries[1].description = "Error loading description (invalid format)."
  /\ view.response.entries[2].title # "Untitled"

\* C5: when the AI client raised or was not available during an upload, the
\* request goes on: the record has the title "Error", the image is in the
\* bucket and is served, and unless a call on the bucket raised the request
\* ends with success, the record is stored and the gallery shows the image
\* with the title "Error".
C5_AiFailureRecoveredLocally ==
  \A r \in Reqs :
    req[r].ai_failed =>
      /\ req[r].pc \in {"put_json", "done"}
      /\ dict_get(req[r].description_data, "title", "") = "Error"
      /\ has_key(req[r].description_data, "description")
      /\ get_image_file_response(bucket, store, req[r].filename, NoFault).status = 200
      /\ get_image_file_response(bucket, store, req[r].filename, NoFault).data = req[r].file_bytes
      /\ (Done(r) /\ ~req[r].store_raised) =>
           /\ Succeeded(r)
           /\ StoredRecord(store, req[r].filename).ok
           /\ dict_get(StoredRecord(store, req[r].filename).val, "title", "") = "Error"
           /\ GalleryTitles(store, req[r].filename) = {"Error"}

\* C5's case: generate_content raised and the upload has ended.
C5_Witness ==
  \E r \in Reqs :
    /\ model /\ req[r].ai_failed /\ req[r].ai_calls = 1
    /\ Succeeded(r)

\* C6: for a name with no blob, when exists() answers, the image handler
\* returns 404 and downloads nothing; it always returns 200 with the blob's
\* bytes, 404 or 500.
C6_MissingImageIsNotFound ==
  ( bucket /\ view.handler = "get_image_file" ) =>
    /\ (~store[view.filename].exists /\ view.fault.op # "exists") =>
         view.response.status = 404 /\ view.response.downloads = 0
    /\ view.response.status \in {200, 404, 500}
    /\ view.response.status = 200 =>
         store[view.filename].exists /\ view.response.data = store[view.filename].data
    /\ (store[view.filename].exists /\ view.fault = NoFault) => view.response.status = 200

\* C6's case: a name with no blob was asked of a bucket that holds other blobs.
C6_Witness ==
  /\ view.handler = "get_image_file"
  /\ ~store[view.filename].exists
  /\ store # EmptyStore
  /\ view.response.status = 404

\* C7: the detail page is always rendered: without a record it shows
\* "Untitled" and "No description file found." (the text ends with a full
\* stop in the source); with a record that is no JSON it shows the error text
\* as the description; with a record that has both fields it shows them.
C7_DetailAlwaysRenders ==
  ( bucket /\ view.handler = "view_image_details" ) =>
    LET key == description_filename(view.filename)
        present == key \in Keys /\ store[key].exists
        rec == json_loads(store[key].data)
    IN  /\ view.response.status = 200
        /\ view.response.filename = view.filename
        /\ (view.fault = NoFault /\ ~present) =>
             /\ view.response.title = "Untitled"
             /\ view.response.description = "No description file found."
        /\ (view.fault = NoFault /\ present /\ ~rec.ok) =>
             view.response.description = "Error: Description file has invalid format."
        /\ (view.fault = NoFault /\ present /\ rec.ok /\ rec.val.t = "dict"
              /\ has_key(rec.val, "title") /\ has_key(rec.val, "description")) =>
             /\ view.response.title = dict_get(rec.val, "title", "")
             /\ view.response.description = dict_get(rec.val, "description", "")
        /\ view.fault # NoFault => view.response.description # ""

\* C7's case: the detail page of an image whose record is no JSON.
C7_Witness ==
  /\ view.handler = "view_image_details" /\ view.fault = NoFault
  /\ store[description_filename(view.filename)].exists
  /\ ~json_loads(store[description_filename(view.filename)].data).ok
  /\ view.response.status = 200

\* C8: in one upload request the image is written first, then the AI client
\* is called, at most once, then the record is written; a failure of a later
\* step leaves the image in the bucket.
C8_UploadStepsInOrder ==
  \A r \in Reqs :
    /\ req[r].ai_calls <= 1
    /\ req[r].ai_calls = 1 => req[r].image_put
    /\ req[r].described => req[r].image_put
    /\ req[r].json_put => req[r].described
    /\ req[r].pc = "put_image" => ~req[r].image_put /\ ~req[r].described
    /\ req[r].pc = "gemini" => req[r].image_put /\ ~req[r].described /\ ~req[r].json_put
    /\ req[r].pc = "put_json" => req[r].described /\ ~req[r].json_put
    /\ req[r].image_put =>
         /\ store[req[r].filename].exists
         /\ store[req[r].filename].data = req[r].file_bytes
         /\ store[req[r].filename].by = req[r].id

\* C8's case: the request has ended with an error after the AI step, its
\* image is stored and it has written no record.
C8_Witness ==
  \E r \in Reqs :
    /\ Done(r) /\ req[r].flash.category = "error"
    /\ req[r].image_put /\ req[r].ai_calls = 1 /\ ~req[r].json_put
    /\ store[req[r].filename].by = req[r].id
    /\ ~store[description_filename(req[r].filename)].exists

\* C9 as stated: the record paired with an uploaded image name was written by
\* the latest successful upload of that very name.
C9_RecordIsOfSameName ==
  \A k \in Filenames :
    last_success[k] > 0 => store[description_filename(k)].by = last_success[k]

\* the names that share the description filename of k
Siblings(k) == {f \in Filenames : description_filename(f) = description_filename(k)}

\* C9 as amended: the record paired with an uploaded image name was written by
\* the latest successful upload among the names that have the same name
\* without the extension; and a step of an upload of a name with another
\* description filename changes neither the detail page nor the gallery title
\* of the image.
C9_RecordIsOfSameBaseName ==
  [][/\ \A k \in Filenames :
          last_success'[k] > 0 =>
            store'[description_filename(k)].by = Latest({last_success'[f] : f \in Siblings(k)})
     /\ \A r \in Reqs : \A k \in ReadNames :
          ( /\ req[r].pc \in {"put_image", "gemini", "put_json"}
            /\ req'[r] # req[r]
            /\ req[r].filename # k
            /\ description_filename(req[r].filename) # description_filename(k) )
          => /\ view_image_details_response(bucket, store', k, NoFault)
                  = view_image_details_response(bucket, store, k, NoFault)
             /\ GalleryTitles(store', k) = GalleryTitles(store, k)]_vars

\* C9's case: a.png was uploaded, then a.JPG, both with success.
C9_Witness ==
  /\ last_success[A_PNG] > 0
  /\ last_success[A_JPG] > last_success[A_PNG]
  /\ store[A_PNG].exists

\* C10 as stated: when two uploads of one filename have both ended with
\* success, the image and the record in the bucket are of the same request.
C10_ImageAndRecordOfSameRequest ==
  ( /\ Succeeded(1) /\ Succeeded(2)
    /\ req[1].filename = req[2].filename )
  => store[req[1].filename].by = store[description_filename(req[1].filename)].by

\* C10 as amended: when two uploads of one filename have both ended with
\* success, the image in the bucket is the whole image of one of the two
\* requests and the record is the whole record of one of the two, not always
\* of the same request.
C10_ImageAndRecordOfEitherRequest ==
  ( /\ Succeeded(1) /\ Succeeded(2)
    /\ req[1].filename = req[2].filename )
  => /\ \E r \in Reqs :
          /\ store[req[1].filename].by = req[r].id
          /\ store[req[1].filename].data = req[r].file_bytes
     /\ \E r \in Reqs :
          /\ store[description_filename(req[1].filename)].by = req[r].id
          /\ store[description_filename(req[1].filename)].data = json_dumps(req[r].description_data)

\* C10's case: both uploads have ended with success and the record is of the
\* request whose image was overwritten.
C10_Witness ==
  /\ Succeeded(1) /\ Succeeded(2)
  /\ req[1].filename = req[2].filename
  /\ store[req[1].filename].by # store[description_filename(req[1].filename)].by
  /\ req[1].description_data # req[2].description_data
=============================================================================
